---------------------------- MODULE Spec2Model ----------------------------
(***************************************************************************)
(* A model of the portfolio engine of terminal-portfolio-manager:          *)
(* the lot ledger (PortfolioService CRUD over the positions table), the    *)
(* valuation pass (get_portfolio / _aggregate_positions), the snapshot     *)
(* history (save_snapshot, get_history), the performance attribution      *)
(* (get_performance) and the rate limiter in front of the quote provider   *)
(* (RateLimiter.acquire_sync, called by StockService.get_stock_analysis;   *)
(* RateLimiter.acquire for coroutines), and the interactive loop           *)
(* (StockAgent.run).                                                       *)
(*                                                                         *)
(* Conventions.                                                            *)
(*  - A Python Optional is a sequence of length 0 (None) or 1 (a value).   *)
(*  - A str is the sequence of its character codes, so that upper(),       *)
(*    strip() and SQLite's BINARY collation are computed, not assumed.     *)
(*  - shares and prices are integers; a float quotient (a percentage, an   *)
(*    average) is an exact fraction [n, d] in lowest terms with d > 0.     *)
(*  - A date is its day number; ISO text of a date orders like the date.   *)
(*  - created_at / updated_at columns are not modelled.                    *)
(*  - The limiter's clock counts tenths of a second; a recorded timestamp  *)
(*    is kept as its age (now - timestamp), and an age past the window is  *)
(*    kept as window_size + 1, since the code only asks whether it is      *)
(*    past the window.                                                     *)
(*  - acquire_sync is one step where callers follow one another           *)
(*    (LimiterSpec, get_portfolio), and two steps around its sleep where   *)
(*    the sleep itself matters (ConcurrentSpec, SyncLiveSpec); in the      *)
(*    two-step form the clock only moves between steps.                    *)
(***************************************************************************)
EXTENDS Integers, Sequences, FiniteSets, TLC

VARIABLES
    positions,   \* rows of table positions
    nextId,      \* next AUTOINCREMENT id of table positions
    snapshots,   \* rows of table portfolio_snapshots
    today,       \* date.today()
    saveCalls,   \* history variable: number of save_snapshot calls so far
    timestamps,  \* RateLimiter.timestamps, as ages, oldest first
    acquired,    \* history variable: ages of the last recorded acquisitions
    quoteLog,    \* what the last call did per symbol at the quote provider
    callers,     \* where each caller of the limiter stands in acquire
    agent,       \* where StockAgent.run stands, and what it last reported
    ret          \* the last call: [op, args, kind, value]

vars == <<positions, nextId, snapshots, today, saveCalls, timestamps, acquired,
          quoteLog, callers, agent, ret>>

----------------------------------------------------------------------------
(* Bounds of the model *)

MaxLots == 2
MaxDay == 1
MaxSaves == 2
\* the limit N the RateLimiter is constructed with
requests_per_minute == 2
\* the number of callers that share one RateLimiter
MaxCallers == 2

----------------------------------------------------------------------------
(* Optionals, fractions *)

None == <<>>
Some(x) == <<x>>

\* Python truthiness of an Optional[float]: None and 0 are falsy
Truthy(v) == v # None /\ v[1] # 0

\* Python truthiness of an Optional[str]: None and "" are falsy
TruthyStr(v) == v # None /\ v[1] # ""

\* the idiom `v or 0`
OrZero(v) == IF Truthy(v) THEN v[1] ELSE 0

Abs(x) == IF x < 0 THEN -x ELSE x

RECURSIVE Gcd(_, _)
Gcd(a, b) == IF b = 0 THEN a ELSE Gcd(b, a % b)

\* the quotient n / d (d # 0) in lowest terms, denominator positive
Frac(n, d) ==
    LET g == Gcd(Abs(n), Abs(d))
        s == IF d < 0 THEN -1 ELSE 1
    IN [n |-> (s * n) \div g, d |-> (s * d) \div g]

FracZero == [n |-> 0, d |-> 1]
FracOfInt(i) == [n |-> i, d |-> 1]
FracAdd(a, b) == Frac(a.n * b.d + b.n * a.d, a.d * b.d)
FracNeg(a) == [n |-> -a.n, d |-> a.d]
FracAbs(a) == [n |-> Abs(a.n), d |-> a.d]

\* (n / d) * 100
Pct(n, d) == Frac(100 * n, d)

RECURSIVE SumSeq(_)
SumSeq(s) == IF s = <<>> THEN 0 ELSE Head(s) + SumSeq(Tail(s))

\* the sum of f[x] over the domain of the function f
RECURSIVE SumOver(_)
SumOver(f) ==
    IF DOMAIN f = {} THEN 0
    ELSE LET x == CHOOSE x \in DOMAIN f : TRUE
         IN f[x] + SumOver([y \in DOMAIN f \ {x} |-> f[y]])

----------------------------------------------------------------------------
(* Strings *)

\* str.upper() on one character code
UpperChar(c) == IF c \in 97..122 THEN c - 32 ELSE c

\* str.upper()
Upper(s) == [i \in 1..Len(s) |-> UpperChar(s[i])]

\* the characters str.strip() removes
IsSpace(c) == c \in {9, 10, 11, 12, 13, 32}

RECURSIVE LStrip(_)
LStrip(s) == IF s # <<>> /\ IsSpace(Head(s)) THEN LStrip(Tail(s)) ELSE s

RECURSIVE RStrip(_)
RStrip(s) ==
    IF s # <<>> /\ IsSpace(s[Len(s)]) THEN RStrip(SubSeq(s, 1, Len(s) - 1)) ELSE s

\* str.strip()
Strip(s) == RStrip(LStrip(s))

\* memcmp order of two strings (SQLite BINARY collation): a < b
RECURSIVE StrLess(_, _)
StrLess(a, b) ==
    IF b = <<>> THEN FALSE
    ELSE IF a = <<>> THEN TRUE
    ELSE IF Head(a) # Head(b) THEN Head(a) < Head(b)
    ELSE StrLess(Tail(a), Tail(b))

\* Position.uppercase_symbol, the field validator of Position.symbol
uppercase_symbol(v) == Strip(Upper(v))

----------------------------------------------------------------------------
(* Lot ledger: table positions *)

\* mutant of PositionsCheck: the table has no CHECK (shares > 0)
PositionsCheckPriceOnly(row) == row.purchase_price > 0

\* the CHECK constraints of table positions
PositionsCheck(row) == row.shares > 0 /\ row.purchase_price > 0

\* Position(...): the symbol passes the validator, the computed fields
\* default to None
Position(row) ==
    [id |-> row.id, symbol |-> uppercase_symbol(row.symbol),
     shares |-> row.shares, purchase_price |-> row.purchase_price,
     purchase_date |-> row.purchase_date, notes |-> row.notes,
     current_price |-> None, current_value |-> None, cost_basis |-> None,
     unrealized_gain |-> None, unrealized_gain_pct |-> None,
     day_change |-> None, day_change_pct |-> None]

\* mutant of NewRow: an INTEGER PRIMARY KEY without AUTOINCREMENT, whose
\* next id is one more than the largest id stored
NewRowAtMaxRowid(id, symbol, shares, purchase_price, purchase_date, notes) ==
    [id |-> IF positions = {} THEN 1
            ELSE 1 + (CHOOSE m \in {r.id : r \in positions} :
                         \A r \in positions : r.id <= m),
     symbol |-> Upper(symbol), shares |-> shares,
     purchase_price |-> purchase_price, purchase_date |-> purchase_date,
     notes |-> notes]

\* the row add_position inserts
NewRow(id, symbol, shares, purchase_price, purchase_date, notes) ==
    [id |-> id, symbol |-> Upper(symbol), shares |-> shares,
     purchase_price |-> purchase_price, purchase_date |-> purchase_date,
     notes |-> notes]

Call(op, args, kind, value) ==
    [op |-> op, args |-> args, kind |-> kind, value |-> value]

\* the quote-provider log of a call that makes no quote request
NoRequests == [sym \in {} |-> <<>>]

add_position(symbol, shares, purchase_price, purchase_date, notes) ==
    LET row == NewRow(nextId, symbol, shares, purchase_price, purchase_date, notes)
        args == [symbol |-> symbol, shares |-> shares,
                 purchase_price |-> purchase_price,
                 purchase_date |-> purchase_date, notes |-> notes]
    IN /\ Cardinality(positions) < MaxLots
       /\ nextId <= MaxLots
       /\ IF PositionsCheck(row)
          THEN /\ positions' = positions \cup {row}
               /\ nextId' = nextId + 1
               /\ ret' = Call("add_position", args, "ok", Position(row))
          ELSE \* sqlite3.IntegrityError: CHECK constraint failed, rolled back
               /\ UNCHANGED <<positions, nextId>>
               /\ ret' = Call("add_position", args, "IntegrityError", None)
       /\ UNCHANGED <<snapshots, today, saveCalls, timestamps, acquired>>
       /\ quoteLog' = NoRequests
       /\ UNCHANGED <<callers, agent>>

\* mutant of remove_position: `rowcount >= 0` in place of `rowcount > 0`
remove_position_rowcount_ge(position_id) ==
    LET hit == {r \in positions : r.id = position_id}
    IN /\ positions' = positions \ hit
       /\ ret' = Call("remove_position", [position_id |-> position_id], "ok",
                      Cardinality(hit) >= 0)
       /\ UNCHANGED <<nextId, snapshots, today, saveCalls,
                      timestamps, acquired>>
       /\ quoteLog' = NoRequests
       /\ UNCHANGED <<callers, agent>>

remove_position(position_id) ==
    LET hit == {r \in positions : r.id = position_id}
    IN /\ positions' = positions \ hit
       /\ ret' = Call("remove_position", [position_id |-> position_id], "ok",
                      Cardinality(hit) > 0)
       /\ UNCHANGED <<nextId, snapshots, today, saveCalls,
                      timestamps, acquired>>
       /\ quoteLog' = NoRequests
       /\ UNCHANGED <<callers, agent>>

\* the row UPDATE positions SET ... WHERE id = ? writes for `row`
UpdatedRow(row, shares, notes) ==
    [row EXCEPT !.shares = IF shares # None THEN shares[1] ELSE @,
                !.notes = IF notes # None THEN notes ELSE @]

\* mutant of GetPositionResult: the fetched row is not checked for None
GetPositionResultUnchecked(op, args, rows, position_id) ==
    Call(op, args, "ok",
         IF \E r \in rows : r.id = position_id
         THEN Position(CHOOSE r \in rows : r.id = position_id) ELSE None)

\* get_position as called at the end of update_position
GetPositionResult(op, args, rows, position_id) ==
    IF \E r \in rows : r.id = position_id
    THEN Call(op, args, "ok", Position(CHOOSE r \in rows : r.id = position_id))
    ELSE Call(op, args, "PositionNotFoundError", None)

update_position(position_id, shares, notes) ==
    LET args == [position_id |-> position_id, shares |-> shares, notes |-> notes]
        hit == {r \in positions : r.id = position_id}
        new == {UpdatedRow(r, shares, notes) : r \in hit}
    IN /\ IF shares = None /\ notes = None
          THEN /\ ret' = Call("update_position", args, "PortfolioError", None)
               /\ UNCHANGED positions
          ELSE IF \E r \in new : ~PositionsCheck(r)
          THEN /\ ret' = Call("update_position", args, "IntegrityError", None)
               /\ UNCHANGED positions
          ELSE /\ positions' = (positions \ hit) \cup new
               /\ ret' = GetPositionResult("update_position", args, positions',
                                           position_id)
       /\ UNCHANGED <<nextId, snapshots, today, saveCalls,
                      timestamps, acquired>>
       /\ quoteLog' = NoRequests
       /\ UNCHANGED <<callers, agent>>

get_position(position_id) ==
    /\ ret' = GetPositionResult("get_position", [position_id |-> position_id],
                                positions, position_id)
    /\ UNCHANGED <<positions, nextId, snapshots, today, saveCalls,
                   timestamps, acquired>>
    /\ quoteLog' = NoRequests
    /\ UNCHANGED <<callers, agent>>

\* rows r1, r2 in ORDER BY symbol, purchase_date order (r1 not after r2)
OrderBySymbolDate(r1, r2) ==
    \/ StrLess(r1.symbol, r2.symbol)
    \/ r1.symbol = r2.symbol /\ r1.purchase_date <= r2.purchase_date

\* rows r1, r2 in ORDER BY purchase_date order
OrderByDate(r1, r2) == r1.purchase_date <= r2.purchase_date

\* every listing of `rows` a SELECT ... ORDER BY may return: rows that tie
\* on the sort key come in any order
Listings(rows, order_by) ==
    {s \in [1..Cardinality(rows) -> rows] :
        /\ \A i, j \in DOMAIN s : i # j => s[i] # s[j]
        /\ \A i, j \in DOMAIN s :
              i < j => IF order_by = "symbol, purchase_date"
                       THEN OrderBySymbolDate(s[i], s[j])
                       ELSE OrderByDate(s[i], s[j])}

\* _row_to_position over a listing
RowsToPositions(listing) == [i \in DOMAIN listing |-> Position(listing[i])]

get_all_positions ==
    /\ \E listing \in Listings(positions, "symbol, purchase_date") :
          ret' = Call("get_all_positions", None, "ok", RowsToPositions(listing))
    /\ UNCHANGED <<positions, nextId, snapshots, today, saveCalls,
                   timestamps, acquired>>
    /\ quoteLog' = NoRequests
    /\ UNCHANGED <<callers, agent>>

get_positions_by_symbol(symbol) ==
    LET rows == {r \in positions : r.symbol = Upper(symbol)}
    IN /\ \E listing \in Listings(rows, "purchase_date") :
             ret' = Call("get_positions_by_symbol", [symbol |-> symbol], "ok",
                         RowsToPositions(listing))
       /\ UNCHANGED <<positions, nextId, snapshots, today, saveCalls,
                      timestamps, acquired>>
       /\ quoteLog' = NoRequests
       /\ UNCHANGED <<callers, agent>>

\* the calendar date advances
Tick ==
    /\ today < MaxDay
    /\ today' = today + 1
    /\ UNCHANGED <<positions, nextId, snapshots, saveCalls, timestamps, acquired,
                   quoteLog, callers, agent, ret>>

----------------------------------------------------------------------------
(* Sequences *)

\* the elements of s at the indices I, in the order of s
Pick(s, I) ==
    [k \in 1..Cardinality(I) |->
        s[CHOOSE i \in I : Cardinality({j \in I : j < i}) = k - 1]]

\* mutant of SortDescending: the list is left as it was built
NotSorted(s, key) == s

\* list.sort(key=..., reverse=True) / sorted(..., reverse=True): descending
\* by key, elements of equal key in their original order; key[i] is the key
\* of s[i]
SortDescending(s, key) ==
    LET place(i) == Cardinality({j \in DOMAIN s : key[j] > key[i]})
                    + Cardinality({j \in DOMAIN s : j < i /\ key[j] = key[i]})
                    + 1
    IN [p \in DOMAIN s |-> s[CHOOSE i \in DOMAIN s : place(i) = p]]

\* mutant of Reverse: reversed() is left out
NotReversed(s) == s

\* reversed(s)
Reverse(s) == [i \in DOMAIN s |-> s[Len(s) + 1 - i]]

Range(s) == {s[i] : i \in DOMAIN s}

----------------------------------------------------------------------------
(* Rate limiter: RateLimiter.acquire_sync *)

\* self.window_size = 60.0, in tenths of a second
window_size == 600

\* the `+ 0.1` of sleep_time, in tenths of a second
SleepBuffer == 1

\* the age of a timestamp of age a after d more tenths of a second
Age(a, d) == IF a + d > window_size THEN window_size + 1 ELSE a + d

\* the ages of the timestamps ts after d more tenths of a second
Elapsed(ts, d) == [i \in DOMAIN ts |-> Age(ts[i], d)]

\* while self.timestamps and now - self.timestamps[0] > self.window_size:
\*     self.timestamps.popleft()
RECURSIVE Purge(_)
Purge(ts) == IF ts # <<>> /\ Head(ts) > window_size THEN Purge(Tail(ts)) ELSE ts

\* the last n elements of s
LastN(s, n) == IF Len(s) <= n THEN s ELSE SubSeq(s, Len(s) - n + 1, Len(s))

\* mutant of SleepTime: the `+ 0.1` is missing
SleepTimeNoBuffer(oldest) == window_size - oldest

\* sleep_time = self.window_size - (now - oldest) + 0.1
SleepTime(oldest) == window_size - oldest + SleepBuffer

\* acquire_sync on the limiter lim = [timestamps, acquired]: time.sleep
\* returns `overshoot` after the time asked for, and the clock read that is
\* recorded comes `lag` after the read the purge used
AcquireSync(lim, overshoot, lag) ==
    LET purged == Purge(lim.timestamps)
        sleep_time == SleepTime(purged[1])
        sleeps == Len(purged) >= requests_per_minute /\ sleep_time > 0
        slept == IF sleeps THEN sleep_time + overshoot ELSE 0
        cleaned == IF sleeps THEN Purge(Elapsed(purged, slept)) ELSE purged
    IN [timestamps |-> Append(Elapsed(cleaned, lag), 0),
        acquired |-> LastN(Append(Elapsed(lim.acquired, slept + lag), 0),
                           requests_per_minute + 1)]

\* the limiters k sequential acquire_sync calls may leave, from lim
RECURSIVE AcquireRuns(_, _, _)
AcquireRuns(lim, k, Delays) ==
    IF k = 0 THEN {lim}
    ELSE UNION {AcquireRuns(AcquireSync(lim, overshoot, lag), k - 1, Delays) :
                   overshoot \in Delays, lag \in Delays}

Limiter == [timestamps |-> timestamps, acquired |-> acquired]

\* one caller calls acquire_sync
acquire_sync(Delays) ==
    /\ \E lim \in AcquireRuns(Limiter, 1, Delays) :
          /\ timestamps' = lim.timestamps
          /\ acquired' = lim.acquired
    /\ ret' = Call("acquire_sync", None, "ok", None)
    /\ quoteLog' = NoRequests
    /\ UNCHANGED <<callers, agent>>
    /\ UNCHANGED <<positions, nextId, snapshots, today, saveCalls>>

\* d tenths of a second pass between two calls
Elapse(d) ==
    /\ timestamps' = Elapsed(timestamps, d)
    /\ acquired' = Elapsed(acquired, d)
    /\ UNCHANGED <<positions, nextId, snapshots, today, saveCalls, quoteLog,
                   callers, agent, ret>>

----------------------------------------------------------------------------
(* Valuation: get_portfolio and _aggregate_positions *)

\* what StockService.get_stock_analysis does for one symbol: it raises
\* (StockNotFoundError, DataFetchError) or returns a StockAnalysis
Failure == [error |-> "DataFetchError"]

StockAnalysis(current_price, previous_close, sector) ==
    [current_price |-> current_price, previous_close |-> previous_close,
     info |-> [sector |-> sector]]

\* mutant of FetchPrices: one try/except around the whole loop, so that the
\* first failure ends the loop and leaves get_portfolio
FetchPricesOneTry(symbols, include_prices, provider) ==
    [raised |-> include_prices /\ \E x \in symbols : provider[x] = Failure,
     price_data |-> IF include_prices
                    THEN [sym \in {x \in symbols : provider[x] # Failure}
                             |-> provider[sym]]
                    ELSE [sym \in {} |-> Failure]]

\* the loop over symbols of get_portfolio: each call in its own try/except;
\* `raised` tells whether an exception left the loop
FetchPrices(symbols, include_prices, provider) ==
    [raised |-> FALSE,
     price_data |-> IF include_prices
                    THEN [sym \in {x \in symbols : provider[x] # Failure}
                             |-> provider[sym]]
                    ELSE [sym \in {} |-> Failure]]

\* mutant of Enrich: a priced lot's cost basis is taken at the quoted price
EnrichCostAtQuote(position, price_data) ==
    LET quoted == position.symbol \in DOMAIN price_data
        analysis == price_data[position.symbol]
        priced == quoted /\ Truthy(analysis.current_price)
        cost_basis == position.shares * (IF priced THEN analysis.current_price[1]
                                         ELSE position.purchase_price)
        current_value == position.shares * analysis.current_price[1]
        unrealized_gain == current_value - cost_basis
    IN [position EXCEPT
          !.cost_basis = Some(cost_basis),
          !.current_price = IF quoted THEN analysis.current_price ELSE @,
          !.current_value = IF priced THEN Some(current_value) ELSE @,
          !.unrealized_gain = IF priced THEN Some(unrealized_gain) ELSE @,
          !.unrealized_gain_pct =
              IF priced
              THEN Some(IF cost_basis > 0 THEN Pct(unrealized_gain, cost_basis)
                        ELSE FracZero)
              ELSE @]

\* the enrichment of one position in get_portfolio
Enrich(position, price_data) ==
    LET cost_basis == position.shares * position.purchase_price
        quoted == position.symbol \in DOMAIN price_data
        analysis == price_data[position.symbol]
        priced == quoted /\ Truthy(analysis.current_price)
        current_value == position.shares * analysis.current_price[1]
        unrealized_gain == current_value - cost_basis
        moved == priced /\ Truthy(analysis.previous_close)
        delta == analysis.current_price[1] - analysis.previous_close[1]
    IN [position EXCEPT
          !.cost_basis = Some(cost_basis),
          !.current_price = IF quoted THEN analysis.current_price ELSE @,
          !.current_value = IF priced THEN Some(current_value) ELSE @,
          !.unrealized_gain = IF priced THEN Some(unrealized_gain) ELSE @,
          !.unrealized_gain_pct =
              IF priced
              THEN Some(IF cost_basis > 0 THEN Pct(unrealized_gain, cost_basis)
                        ELSE FracZero)
              ELSE @,
          !.day_change = IF moved THEN Some(delta * position.shares) ELSE @,
          !.day_change_pct =
              IF moved THEN Some(Pct(delta, analysis.previous_close[1])) ELSE @]

\* mutant of TotalCurrentValue: an unpriced lot is valued at its cost
TotalCurrentValueAtCost(ps) ==
    SumSeq([i \in DOMAIN ps |-> IF Truthy(ps[i].current_value)
                                THEN ps[i].current_value[1]
                                ELSE OrZero(ps[i].cost_basis)])

\* mutant of TotalCurrentValue: the prices are summed, not the values
TotalCurrentValueOfPrices(ps) ==
    SumSeq([i \in DOMAIN ps |-> OrZero(ps[i].current_price)])

\* sum(p.current_value or 0 for p in positions)
TotalCurrentValue(ps) == SumSeq([i \in DOMAIN ps |-> OrZero(ps[i].current_value)])

\* the AggregatedPosition of one symbol group
AggregateOf(symbol, lots, price_data, total_portfolio_value) ==
    LET total_shares == SumSeq([i \in DOMAIN lots |-> lots[i].shares])
        total_cost == SumSeq([i \in DOMAIN lots |-> lots[i].shares * lots[i].purchase_price])
        quoted == symbol \in DOMAIN price_data
        analysis == price_data[symbol]
        current_price == IF quoted THEN analysis.current_price ELSE None
        current_value == IF quoted /\ Truthy(current_price)
                         THEN Some(total_shares * current_price[1]) ELSE None
        unrealized_gain == IF Truthy(current_value)
                           THEN Some(current_value[1] - total_cost) ELSE None
    IN [symbol |-> symbol,
        total_shares |-> total_shares,
        total_cost_basis |-> total_cost,
        average_cost |-> IF total_shares > 0 THEN Frac(total_cost, total_shares)
                         ELSE FracZero,
        current_price |-> current_price,
        current_value |-> current_value,
        unrealized_gain |-> unrealized_gain,
        unrealized_gain_pct |->
            IF unrealized_gain # None /\ total_cost > 0
            THEN Some(Pct(unrealized_gain[1], total_cost)) ELSE None,
        weight_pct |->
            IF Truthy(current_value) /\ total_portfolio_value > 0
            THEN Some(Pct(current_value[1], total_portfolio_value)) ELSE None,
        sector |-> IF quoted THEN analysis.info.sector ELSE None,
        lots |-> lots]

\* the symbols of ps in the order of their first lot (dict insertion order)
SymbolGroups(ps) ==
    LET firsts == Pick(ps, {i \in DOMAIN ps :
                               \A j \in 1..(i - 1) : ps[j].symbol # ps[i].symbol})
    IN [k \in DOMAIN firsts |-> firsts[k].symbol]

\* mutant of LotsOf: a symbol's group keeps its first lot only
LotsOfFirst(ps, symbol) == SubSeq(SelectSeq(ps, LAMBDA p : p.symbol = symbol), 1, 1)

\* symbol_groups[symbol]: the lots of the symbol, in the order of ps
LotsOf(ps, symbol) == SelectSeq(ps, LAMBDA p : p.symbol = symbol)

\* mutant of _aggregate_positions: the weights are shares of the total cost
\* basis
_aggregate_positions_weight_of_cost(ps, price_data) ==
    LET total_portfolio_value == SumSeq([i \in DOMAIN ps |-> OrZero(ps[i].cost_basis)])
        groups == SymbolGroups(ps)
        aggregated == [k \in DOMAIN groups |->
                          AggregateOf(groups[k], LotsOf(ps, groups[k]), price_data,
                                      total_portfolio_value)]
    IN SortDescending(aggregated,
                      [k \in DOMAIN aggregated |-> OrZero(aggregated[k].current_value)])

_aggregate_positions(ps, price_data) ==
    LET total_portfolio_value == TotalCurrentValue(ps)
        groups == SymbolGroups(ps)
        aggregated == [k \in DOMAIN groups |->
                          AggregateOf(groups[k], LotsOf(ps, groups[k]), price_data,
                                      total_portfolio_value)]
    IN SortDescending(aggregated,
                      [k \in DOMAIN aggregated |-> OrZero(aggregated[k].current_value)])

\* mutant of SectorAllocation: `=` in place of `+=`, so that a sector's
\* entry is the share of the last of its positions
RECURSIVE SectorAllocationLastOnly(_, _, _)
SectorAllocationLastOnly(aggregated, k, total_current_value) ==
    IF k = 0 THEN [x \in {} |-> FracZero]
    ELSE LET sofar == SectorAllocationLastOnly(aggregated, k - 1, total_current_value)
             agg == aggregated[k]
         IN IF TruthyStr(agg.sector) /\ Truthy(agg.current_value)
               /\ total_current_value > 0
            THEN LET sec == agg.sector[1]
                     add == Pct(agg.current_value[1], total_current_value)
                 IN [x \in DOMAIN sofar \cup {sec} |->
                        IF x = sec THEN add ELSE sofar[x]]
            ELSE sofar

\* the sector allocation loop of get_portfolio over aggregated[1..k]
RECURSIVE SectorAllocation(_, _, _)
SectorAllocation(aggregated, k, total_current_value) ==
    IF k = 0 THEN [x \in {} |-> FracZero]
    ELSE LET sofar == SectorAllocation(aggregated, k - 1, total_current_value)
             agg == aggregated[k]
         IN IF TruthyStr(agg.sector) /\ Truthy(agg.current_value)
               /\ total_current_value > 0
            THEN LET sec == agg.sector[1]
                     old == IF sec \in DOMAIN sofar THEN sofar[sec] ELSE FracZero
                     add == Pct(agg.current_value[1], total_current_value)
                 IN [x \in DOMAIN sofar \cup {sec} |->
                        IF x = sec THEN FracAdd(old, add) ELSE sofar[x]]
            ELSE sofar

\* Portfolio(): every field at its default
EmptyPortfolio ==
    [positions |-> <<>>, aggregated |-> <<>>,
     total_cost_basis |-> 0, total_current_value |-> 0,
     total_unrealized_gain |-> 0, total_unrealized_gain_pct |-> FracZero,
     total_day_change |-> 0, total_day_change_pct |-> FracZero,
     num_positions |-> 0, num_symbols |-> 0,
     sector_allocation |-> [x \in {} |-> FracZero]]

\* mutant of GainPct: the `* 100` is missing
GainPctNoScale(gain, cost_basis) ==
    IF cost_basis > 0 THEN Frac(gain, cost_basis) ELSE FracZero

\* (total_unrealized_gain / total_cost_basis) * 100 if total_cost_basis > 0
\* else 0
GainPct(gain, cost_basis) ==
    IF cost_basis > 0 THEN Pct(gain, cost_basis) ELSE FracZero

\* mutant of DayChangePct: the change is taken relative to today's value
DayChangePctOfValue(total_day_change, total_current_value) ==
    IF total_current_value > 0 THEN Pct(total_day_change, total_current_value)
    ELSE FracZero

\* (total_day_change / (total_current_value - total_day_change)) * 100
\* if (total_current_value - total_day_change) > 0 else 0
DayChangePct(total_day_change, total_current_value) ==
    IF total_current_value - total_day_change > 0
    THEN Pct(total_day_change, total_current_value - total_day_change)
    ELSE FracZero

\* get_portfolio after the price loop: ps is what get_all_positions returned
Valuation(ps, price_data) ==
    LET enriched == [i \in DOMAIN ps |-> Enrich(ps[i], price_data)]
        aggregated == _aggregate_positions(enriched, price_data)
        total_cost_basis == SumSeq([i \in DOMAIN enriched |-> OrZero(enriched[i].cost_basis)])
        total_current_value == TotalCurrentValue(enriched)
        total_unrealized_gain == total_current_value - total_cost_basis
        total_day_change == SumSeq([i \in DOMAIN enriched |-> OrZero(enriched[i].day_change)])
    IN [positions |-> enriched,
        aggregated |-> aggregated,
        total_cost_basis |-> total_cost_basis,
        total_current_value |-> total_current_value,
        total_unrealized_gain |-> total_unrealized_gain,
        total_unrealized_gain_pct |-> GainPct(total_unrealized_gain, total_cost_basis),
        total_day_change |-> total_day_change,
        total_day_change_pct |-> DayChangePct(total_day_change, total_current_value),
        num_positions |-> Len(enriched),
        num_symbols |-> Cardinality({ps[i].symbol : i \in DOMAIN ps}),
        sector_allocation |->
            SectorAllocation(aggregated, Len(aggregated), total_current_value)]

\* get_portfolio on the listing ps with the provider answering as `provider`
PortfolioResult(ps, include_prices, provider) ==
    LET args == [include_prices |-> include_prices, provider |-> provider]
        fetch == FetchPrices({ps[i].symbol : i \in DOMAIN ps}, include_prices, provider)
    IN IF ps = <<>> THEN Call("get_portfolio", args, "ok", EmptyPortfolio)
       ELSE IF fetch.raised THEN Call("get_portfolio", args, "DataFetchError", None)
       ELSE Call("get_portfolio", args, "ok", Valuation(ps, fetch.price_data))

\* the symbols get_portfolio asks the provider about
HeldSymbols == {uppercase_symbol(r.symbol) : r \in positions}

\* StockService.get_stock_analysis(symbol): the calls it makes, in order
StockAnalysisCalls == <<"acquire_sync", "Ticker.info">>

\* mutant of QuoteLog: the price loop runs over the lots, not over the set of
\* their symbols
QuoteLogPerLot(ps, include_prices) ==
    IF ps = <<>> \/ ~include_prices THEN NoRequests
    ELSE [sym \in {ps[i].symbol : i \in DOMAIN ps} |->
             IF Len(LotsOf(ps, sym)) = 1 THEN StockAnalysisCalls
             ELSE StockAnalysisCalls \o StockAnalysisCalls]

\* what get_portfolio does per symbol at the quote provider: nothing for an
\* empty ledger or without prices, else one get_stock_analysis per element
\* of set(p.symbol for p in positions)
QuoteLog(ps, include_prices) ==
    IF ps = <<>> \/ ~include_prices THEN NoRequests
    ELSE [sym \in {ps[i].symbol : i \in DOMAIN ps} |-> StockAnalysisCalls]

\* the number of acquire_sync calls in a log
SlotsAcquired(log) ==
    SumOver([sym \in DOMAIN log |->
                Len(SelectSeq(log[sym], LAMBDA e : e = "acquire_sync"))])

get_portfolio(include_prices, Outcomes, Delays) ==
    /\ \E listing \in Listings(positions, "symbol, purchase_date"),
          provider \in IF include_prices THEN [HeldSymbols -> Outcomes]
                       ELSE {[sym \in HeldSymbols |-> Failure]} :  \* not asked
          LET ps == RowsToPositions(listing)
              log == QuoteLog(ps, include_prices)
          IN /\ ret' = PortfolioResult(ps, include_prices, provider)
             /\ quoteLog' = log
             /\ UNCHANGED <<callers, agent>>
             /\ \E lim \in AcquireRuns(Limiter, SlotsAcquired(log), Delays) :
                   /\ timestamps' = lim.timestamps
                   /\ acquired' = lim.acquired
    /\ UNCHANGED <<positions, nextId, snapshots, today, saveCalls>>

----------------------------------------------------------------------------
(* Snapshot history: table portfolio_snapshots *)

\* PortfolioSnapshot built by save_snapshot
SnapshotOf(portfolio, day) ==
    [snapshot_date |-> day,
     total_value |-> portfolio.total_current_value,
     total_cost_basis |-> portfolio.total_cost_basis,
     total_gain |-> portfolio.total_unrealized_gain,
     total_gain_pct |-> portfolio.total_unrealized_gain_pct,
     num_positions |-> portfolio.num_positions]

\* mutant of Upsert: a plain INSERT into a table without the UNIQUE date
UpsertAppends(rows, snapshot) == rows \cup {snapshot}

\* INSERT ... ON CONFLICT(snapshot_date) DO UPDATE SET <every total>
Upsert(rows, snapshot) ==
    IF \E r \in rows : r.snapshot_date = snapshot.snapshot_date
    THEN {IF r.snapshot_date = snapshot.snapshot_date
          THEN [r EXCEPT !.total_value = snapshot.total_value,
                         !.total_cost_basis = snapshot.total_cost_basis,
                         !.total_gain = snapshot.total_gain,
                         !.total_gain_pct = snapshot.total_gain_pct,
                         !.num_positions = snapshot.num_positions]
          ELSE r : r \in rows}
    ELSE rows \cup {snapshot}

\* save_snapshot(portfolio), portfolio being what get_portfolio last returned
save_snapshot ==
    /\ ret.op = "get_portfolio" /\ ret.kind = "ok"
    /\ saveCalls < MaxSaves
    /\ LET snapshot == SnapshotOf(ret.value, today)
       IN /\ snapshots' = Upsert(snapshots, snapshot)
          /\ ret' = Call("save_snapshot", [portfolio |-> ret.value], "ok", snapshot)
    /\ saveCalls' = saveCalls + 1
    /\ quoteLog' = NoRequests
    /\ UNCHANGED <<callers, agent>>
    /\ UNCHANGED <<positions, nextId, today, timestamps, acquired>>

\* SQLite's date('now') is the calendar date in UTC, while date.today() is
\* the date in the local time zone: the day before it, the same day or the
\* day after it, by the zone and the time of day
UtcDates == {today - 1, today, today + 1}

\* the rows SELECT ... WHERE snapshot_date >= date('now', '-<days> days')
\* ORDER BY snapshot_date ASC returns; snapshot_date is UNIQUE, so the order
\* has no ties
HistoryRows(rows, utc_today, days) ==
    LET hit == {r \in rows : r.snapshot_date >= utc_today - days}
    IN CHOOSE s \in [1..Cardinality(hit) -> hit] :
          \A i, j \in DOMAIN s : i < j => s[i].snapshot_date < s[j].snapshot_date

\* PortfolioHistory(): no snapshots, every summary field None
EmptyHistory ==
    [snapshots |-> <<>>, earliest_date |-> None, latest_date |-> None,
     starting_value |-> None, current_value |-> None, total_change |-> None,
     total_change_pct |-> None, high_value |-> None, high_date |-> None,
     low_value |-> None, low_date |-> None]

\* mutant of MaxByValue: of the snapshots of greatest total_value, the last
MaxByValueLast(s) ==
    s[CHOOSE i \in DOMAIN s :
          /\ \A j \in DOMAIN s : s[j].total_value <= s[i].total_value
          /\ \A j \in DOMAIN s : j > i => s[j].total_value < s[i].total_value]

\* max(snapshots, key=lambda s: s.total_value): of the snapshots of greatest
\* total_value, the first
MaxByValue(s) ==
    s[CHOOSE i \in DOMAIN s :
          /\ \A j \in DOMAIN s : s[j].total_value <= s[i].total_value
          /\ \A j \in DOMAIN s : j < i => s[j].total_value < s[i].total_value]

\* min(snapshots, key=lambda s: s.total_value): of the snapshots of least
\* total_value, the first
MinByValue(s) ==
    s[CHOOSE i \in DOMAIN s :
          /\ \A j \in DOMAIN s : s[j].total_value >= s[i].total_value
          /\ \A j \in DOMAIN s : j < i => s[j].total_value > s[i].total_value]

\* the PortfolioHistory get_history builds from the fetched rows
HistoryOf(rows) ==
    IF rows = <<>> THEN EmptyHistory
    ELSE LET first == rows[1]
             last == rows[Len(rows)]
             high_snapshot == MaxByValue(rows)
             low_snapshot == MinByValue(rows)
             total_change == last.total_value - first.total_value
         IN [snapshots |-> rows,
             earliest_date |-> Some(first.snapshot_date),
             latest_date |-> Some(last.snapshot_date),
             starting_value |-> Some(first.total_value),
             current_value |-> Some(last.total_value),
             total_change |-> Some(total_change),
             total_change_pct |->
                 Some(IF first.total_value > 0 THEN Pct(total_change, first.total_value)
                      ELSE FracZero),
             high_value |-> Some(high_snapshot.total_value),
             high_date |-> Some(high_snapshot.snapshot_date),
             low_value |-> Some(low_snapshot.total_value),
             low_date |-> Some(low_snapshot.snapshot_date)]

\* mutant of get_history: the snapshots older than the window are deleted
get_history_pruning(days) ==
    /\ \E utc_today \in UtcDates :
          /\ ret' = Call("get_history", [days |-> days, utc_today |-> utc_today], "ok",
                         HistoryOf(HistoryRows(snapshots, utc_today, days)))
          /\ snapshots' = {r \in snapshots : r.snapshot_date >= utc_today - days}
    /\ quoteLog' = NoRequests
    /\ UNCHANGED <<callers, agent>>
    /\ UNCHANGED <<positions, nextId, today, saveCalls, timestamps, acquired>>

\* get_history(days), called when date('now') is utc_today
get_history(days) ==
    /\ \E utc_today \in UtcDates :
          ret' = Call("get_history", [days |-> days, utc_today |-> utc_today], "ok",
                      HistoryOf(HistoryRows(snapshots, utc_today, days)))
    /\ quoteLog' = NoRequests
    /\ UNCHANGED <<callers, agent>>
    /\ UNCHANGED <<positions, nextId, snapshots, today, saveCalls,
                   timestamps, acquired>>

----------------------------------------------------------------------------
(* Performance attribution: get_performance *)

\* mutant of ContributionPct: the `elif total_gain < 0 and gain > 0` branch
\* is missing
ContributionPctNoElif(gain, total_gain) ==
    LET contribution_pct == IF total_gain # 0 THEN Pct(gain, Abs(total_gain))
                            ELSE FracZero
    IN IF total_gain > 0 /\ gain < 0 THEN FracNeg(FracAbs(contribution_pct))
       ELSE contribution_pct

\* contribution_pct of a holding with gain `gain` when the portfolio's
\* total gain is total_gain
ContributionPct(gain, total_gain) ==
    LET contribution_pct == IF total_gain # 0 THEN Pct(gain, Abs(total_gain))
                            ELSE FracZero
    IN IF total_gain > 0 /\ gain < 0 THEN FracNeg(FracAbs(contribution_pct))
       ELSE IF total_gain < 0 /\ gain > 0 THEN FracNeg(FracAbs(contribution_pct))
       ELSE contribution_pct

\* `x or 0` for an Optional[float] that is a fraction
FracOrZero(v) == IF v # None /\ v[1].n # 0 THEN v[1] ELSE FracZero

HoldingPerformance(agg, total_gain) ==
    [symbol |-> agg.symbol,
     current_value |-> agg.current_value[1],
     cost_basis |-> agg.total_cost_basis,
     unrealized_gain |-> agg.unrealized_gain[1],
     unrealized_gain_pct |-> FracOrZero(agg.unrealized_gain_pct),
     weight_pct |-> FracOrZero(agg.weight_pct),
     contribution_pct |-> ContributionPct(agg.unrealized_gain[1], total_gain),
     sector |-> agg.sector]

\* holdings[:5]
TopN == 5
Take(s, n) == SubSeq(s, 1, IF Len(s) < n THEN Len(s) ELSE n)

\* mutant of SectorKey: `h.sector if h.sector is not None else "Unknown"`
SectorKeyOfNone(h) == IF h.sector # None THEN h.sector[1] ELSE "Unknown"

\* `h.sector or "Unknown"`
SectorKey(h) == IF TruthyStr(h.sector) THEN h.sector[1] ELSE "Unknown"

SectorPerformance(holdings) ==
    [sec \in {SectorKey(holdings[i]) : i \in DOMAIN holdings} |->
        LET mine == SelectSeq(holdings, LAMBDA h : SectorKey(h) = sec)
            gain == SumSeq([i \in DOMAIN mine |-> mine[i].unrealized_gain])
            value == SumSeq([i \in DOMAIN mine |-> mine[i].cost_basis])
        IN IF value > 0 THEN Pct(gain, value) ELSE FracZero]

\* PortfolioPerformance(): every field at its default
EmptyPerformance ==
    [holdings |-> <<>>, top_gainers |-> <<>>, top_losers |-> <<>>,
     total_value |-> 0, total_cost_basis |-> 0, total_gain |-> 0,
     total_gain_pct |-> FracZero, sector_performance |-> [x \in {} |-> FracZero]]

Performance(portfolio) ==
    IF portfolio.aggregated = <<>> THEN EmptyPerformance
    ELSE
    LET total_gain == portfolio.total_unrealized_gain
        priced == SelectSeq(portfolio.aggregated,
                            LAMBDA a : a.current_value # None /\ a.unrealized_gain # None)
        holdings == [i \in DOMAIN priced |-> HoldingPerformance(priced[i], total_gain)]
        sorted_by_gain == SortDescending(holdings,
                              [i \in DOMAIN holdings |-> holdings[i].unrealized_gain])
    IN [holdings |-> sorted_by_gain,
        top_gainers |-> Take(SelectSeq(sorted_by_gain,
                                       LAMBDA h : h.unrealized_gain > 0), TopN),
        top_losers |-> Take(SelectSeq(Reverse(sorted_by_gain),
                                      LAMBDA h : h.unrealized_gain < 0), TopN),
        total_value |-> portfolio.total_current_value,
        total_cost_basis |-> portfolio.total_cost_basis,
        total_gain |-> total_gain,
        total_gain_pct |-> portfolio.total_unrealized_gain_pct,
        sector_performance |-> SectorPerformance(holdings)]

\* get_performance(portfolio), portfolio being what get_portfolio last returned
get_performance ==
    /\ ret.op = "get_portfolio" /\ ret.kind = "ok"
    /\ ret' = Call("get_performance", [portfolio |-> ret.value], "ok",
                   Performance(ret.value))
    /\ UNCHANGED <<positions, nextId, snapshots, today, saveCalls,
                   timestamps, acquired>>
    /\ quoteLog' = NoRequests
    /\ UNCHANGED <<callers, agent>>

----------------------------------------------------------------------------
(* Rate limiter, step by step: a call that finds the limiter at capacity   *)
(* sleeps and goes on when the sleep ends; time passes only between steps  *)

Callers == 1..MaxCallers

\* a caller whose call has returned; history fields: the number of sleeps of
\* that call and the number of timestamps it added to the deque
Returned(slept, appended) ==
    [pc |-> "idle", wake |-> 0, slept |-> slept, appended |-> appended]

\* a caller before its first call
NotCalling == Returned(0, 0)

\* a caller inside asyncio.sleep / time.sleep with `wake` still to sleep
Sleeping(wake) == [pc |-> "sleeping", wake |-> wake, slept |-> 1, appended |-> 0]

\* mutant of Record: the timestamp of the call is not appended
RecordNothing(ts) == Purge(ts)

\* what follows the sleep, and what a call does that does not sleep: drop
\* the timestamps past the window, then self.timestamps.append(time.time())
Record(ts) == Append(Purge(ts), 0)

\* the call of caller t up to its sleep, or up to its return when it does
\* not sleep; op is "acquire" or "acquire_sync"
AcquireBegin(t, op) ==
    LET purged == Purge(timestamps)
        sleeps == Len(purged) >= requests_per_minute /\ SleepTime(purged[1]) > 0
    IN /\ callers[t].pc = "idle"
       /\ IF sleeps
          THEN /\ timestamps' = purged
               /\ callers' = [callers EXCEPT ![t] = Sleeping(SleepTime(purged[1]))]
               /\ ret' = Call(op, [caller |-> t], "sleeping", None)
               /\ UNCHANGED acquired
          ELSE /\ timestamps' = Record(timestamps)
               /\ acquired' = LastN(Append(acquired, 0), requests_per_minute + 1)
               /\ callers' = [callers EXCEPT
                                 ![t] = Returned(0, Len(timestamps') - Len(purged))]
               /\ ret' = Call(op, [caller |-> t], "ok", None)
       /\ quoteLog' = NoRequests
       /\ UNCHANGED <<positions, nextId, snapshots, today, saveCalls, agent>>

\* the sleep of caller t is over: the rest of the call, to its return
AcquireResume(t, op) ==
    /\ callers[t].pc = "sleeping"
    /\ callers[t].wake = 0
    /\ timestamps' = Record(timestamps)
    /\ acquired' = LastN(Append(acquired, 0), requests_per_minute + 1)
    /\ callers' = [callers EXCEPT
                      ![t] = Returned(callers[t].slept,
                                      Len(timestamps') - Len(Purge(timestamps)))]
    /\ ret' = Call(op, [caller |-> t], "ok", None)
    /\ quoteLog' = NoRequests
    /\ UNCHANGED <<positions, nextId, snapshots, today, saveCalls, agent>>

\* d tenths of a second pass: every timestamp ages and every sleep gets
\* shorter; a sleep that is over may be left late
Pass(d) ==
    /\ timestamps' = Elapsed(timestamps, d)
    /\ acquired' = Elapsed(acquired, d)
    /\ callers' = [t \in Callers |->
                     [callers[t] EXCEPT !.wake = IF @ > d THEN @ - d ELSE 0]]
    /\ UNCHANGED <<positions, nextId, snapshots, today, saveCalls, quoteLog,
                   agent, ret>>

\* the sleeps still running
Sleeps == {callers[t].wake : t \in {c \in Callers : callers[c].pc = "sleeping"}}

----------------------------------------------------------------------------
(* Agent loop: StockAgent.run *)

\* the loop after display_welcome(), at its first prompt; `raised` is the
\* exception the loop last caught, `said` what it last displayed
AgentAtStart ==
    [pc |-> "prompt", command |-> None, raised |-> None, said |-> "welcome"]

\* the agent is inside the handler of command c
Handling(c) == agent.pc = "handler" /\ agent.command = Some(c)

\* mutant of AfterException: the loop has no `except Exception` clause, so
\* that any other exception leaves run()
AfterExceptionNoCatchAll(e) ==
    IF e = "StockAgentError"
    THEN [agent EXCEPT !.pc = "prompt", !.raised = Some(e), !.said = "error"]
    ELSE [agent EXCEPT !.pc = "ended", !.raised = Some(e), !.said = "goodbye"]

\* the except clauses of the loop, for an exception of class e
AfterException(e) ==
    IF e = "KeyboardInterrupt"
    THEN [agent EXCEPT !.pc = "ended", !.raised = Some(e), !.said = "goodbye"]
    ELSE IF e = "StockAgentError"
    THEN [agent EXCEPT !.pc = "prompt", !.raised = Some(e), !.said = "error"]
    ELSE [agent EXCEPT !.pc = "prompt", !.raised = Some(e),
                       !.said = "unexpected error"]

\* command = self.prompts.get_command() and the dispatch on it: "quit"
\* says goodbye and breaks, any other command enters its handler
get_command(commands) ==
    /\ agent.pc = "prompt"
    /\ \E c \in commands :
          /\ agent' = IF c = "quit"
                      THEN [pc |-> "ended", command |-> Some(c), raised |-> None,
                            said |-> "goodbye"]
                      ELSE [pc |-> "handler", command |-> Some(c), raised |-> None,
                            said |-> agent.said]
          /\ ret' = Call("get_command", None, "ok", c)
    /\ quoteLog' = NoRequests
    /\ UNCHANGED <<positions, nextId, snapshots, today, saveCalls, timestamps,
                   acquired, callers>>

\* whether the handler of the command may return after the call `ret`:
\* _add_position returns without a symbol, after a failed validation and
\* after add_position; _remove_position returns on an empty portfolio,
\* when the removal is not confirmed and after remove_position
HandlerDone ==
    \/ Handling("help")
    \/ Handling("add") /\ ret.op \in {"get_command", "acquire_sync", "add_position"}
    \/ Handling("remove") /\ ret.op \in {"get_portfolio", "remove_position"}

\* the handler returns and the loop is back at its prompt
handler_returns ==
    /\ HandlerDone
    /\ agent' = [agent EXCEPT !.pc = "prompt", !.said = "output"]
    /\ UNCHANGED <<positions, nextId, snapshots, today, saveCalls, timestamps,
                   acquired, quoteLog, callers, ret>>

\* an exception of class e is raised inside the try block, at the prompt
\* or inside a handler, and reaches the loop's except clauses
raises(e) ==
    /\ agent.pc \in {"prompt", "handler"}
    /\ agent' = AfterException(e)
    /\ UNCHANGED <<positions, nextId, snapshots, today, saveCalls, timestamps,
                   acquired, quoteLog, callers, ret>>

----------------------------------------------------------------------------
(* Initial state: a fresh database *)

Init ==
    /\ positions = {}
    /\ nextId = 1
    /\ snapshots = {}
    /\ today = 0
    /\ saveCalls = 0
    /\ timestamps = <<>>
    /\ acquired = <<>>
    /\ quoteLog = NoRequests
    /\ callers = [t \in Callers |-> NotCalling]
    /\ agent = AgentAtStart
    /\ ret = Call("init", None, "ok", None)

OptionalOf(S) == {None} \cup {Some(x) : x \in S}

IdInputs == 1..(MaxLots + 1)

\* a run in which neither time.sleep nor the clock reads add any delay
NoDelay == {0}

----------------------------------------------------------------------------
(* Spec: the lot ledger's records under add / remove / update / read *)

\* "A", "B"
LedgerSymbols == {<<65>>, <<66>>}
LedgerShares == {0, 1, 2}
LedgerPrices == {0, 1}
LedgerNotes == {None, Some("n")}

AddPosition ==
    \E symbol \in LedgerSymbols, shares \in LedgerShares, price \in LedgerPrices,
       notes \in LedgerNotes :
        add_position(symbol, shares, price, 0, notes)

RemovePosition == \E id \in IdInputs : remove_position(id)

UpdatePosition ==
    \E id \in IdInputs, shares \in OptionalOf(LedgerShares), notes \in LedgerNotes :
        update_position(id, shares, notes)

GetPosition == \E id \in IdInputs : get_position(id)

Next ==
    \/ AddPosition
    \/ RemovePosition
    \/ UpdatePosition
    \/ GetPosition

Spec == Init /\ [][Next]_vars

----------------------------------------------------------------------------
(* InputSpec: what add accepts and how symbols are stored and read back *)

\* "a", "A", " a", "a ", "B"
RawSymbols == {<<97>>, <<65>>, <<32, 97>>, <<97, 32>>, <<66>>}
RawShares == {0, 1}
RawPrices == {0, 1}
RawDates == 0..(MaxDay + 1)

AddRaw ==
    \E symbol \in RawSymbols, shares \in RawShares, price \in RawPrices,
       d \in RawDates :
        add_position(symbol, shares, price, d, None)

GetAllPositions == get_all_positions

GetPositionsBySymbol == \E symbol \in RawSymbols : get_positions_by_symbol(symbol)

\* get_portfolio(include_prices=False), as the remove command calls it
GetPortfolioUnpriced == get_portfolio(FALSE, {Failure}, NoDelay)

InputNext ==
    \/ AddRaw
    \/ RemovePosition
    \/ GetAllPositions
    \/ GetPositionsBySymbol
    \/ GetPortfolioUnpriced
    \/ Tick

InputSpec == Init /\ [][InputNext]_vars

----------------------------------------------------------------------------
(* PortfolioSpec: valuation and attribution of a ledger of valid lots *)

HeldShares == {1, 2}
HeldPrices == {2}

QuotePrices == {None, Some(1), Some(2), Some(3)}
QuoteCloses == {None}
QuoteSectors == {None, Some("Tech")}

Outcomes ==
    {Failure} \cup {StockAnalysis(cp, pc, sec) :
                       cp \in QuotePrices, pc \in QuoteCloses, sec \in QuoteSectors}

AddLot ==
    \E symbol \in LedgerSymbols, shares \in HeldShares, price \in HeldPrices :
        add_position(symbol, shares, price, 0, None)

GetPortfolio ==
    \E include_prices \in BOOLEAN : get_portfolio(include_prices, Outcomes, NoDelay)

GetPerformance == get_performance

PortfolioNext ==
    \/ AddLot
    \/ RemovePosition
    \/ GetPortfolio
    \/ GetPerformance

PortfolioSpec == Init /\ [][PortfolioNext]_vars

----------------------------------------------------------------------------
(* SnapshotSpec: one snapshot per day of the valuations of a small ledger *)

SnapshotOutcomes == {Failure, StockAnalysis(Some(1), None, None),
                     StockAnalysis(Some(3), None, None)}

AddOneShare == add_position(<<65>>, 1, 2, 0, None)

GetPortfolioForSnapshot == get_portfolio(TRUE, SnapshotOutcomes, NoDelay)

SaveSnapshot == save_snapshot

SnapshotNext ==
    \/ AddOneShare
    \/ RemovePosition
    \/ GetPortfolioForSnapshot
    \/ SaveSnapshot
    \/ Tick

SnapshotSpec == Init /\ [][SnapshotNext]_vars

----------------------------------------------------------------------------
(* HistorySpec: the history windows over the snapshots of a one-lot ledger *)

HistoryDays == {0, 1}

GetHistory == \E days \in HistoryDays : get_history(days)

HistoryNext ==
    \/ AddOneShare
    \/ GetPortfolioForSnapshot
    \/ SaveSnapshot
    \/ Tick
    \/ GetHistory

HistorySpec == Init /\ [][HistoryNext]_vars

----------------------------------------------------------------------------
(* FrameSpec: every operation on the ledger and on the snapshots together *)

UpdateShares ==
    \E id \in IdInputs, shares \in OptionalOf({2}) : update_position(id, shares, None)

FrameNext ==
    \/ AddOneShare
    \/ RemovePosition
    \/ UpdateShares
    \/ GetPortfolioForSnapshot
    \/ GetPerformance
    \/ GetHistory
    \/ SaveSnapshot
    \/ Tick

FrameSpec == Init /\ [][FrameNext]_vars

----------------------------------------------------------------------------
(* LimiterSpec: sequential callers of acquire_sync, with time passing *)

\* what time.sleep oversleeps by and what lies between two clock reads
Delays == {0, 1}

\* the time that passes between two calls: half a window, a whole window
Waits == {300, 600}

AcquireSyncCall == acquire_sync(Delays)

Wait == \E d \in Waits : Elapse(d)

LimiterNext ==
    \/ AcquireSyncCall
    \/ Wait

LimiterSpec == Init /\ [][LimiterNext]_vars

----------------------------------------------------------------------------
(* AttributionSpec: get_performance over the valuations of a six-symbol    *)
(* ledger, one more holding than top_gainers and top_losers keep           *)

\* the number of symbols held: "A" .. "F"
HeldSymbolCount == 6

\* the ledger after one add per symbol: one share of "A", two of "B", ...,
\* each bought at 2
SixLots ==
    [i \in 1..HeldSymbolCount |->
        NewRow(i, <<64 + i>>, IF i % 2 = 1 THEN 1 ELSE 2, 2, 0, None)]

AttributionOutcomes ==
    {Failure} \cup {StockAnalysis(Some(p), None, None) : p \in {1, 2, 3}}

\* the state after get_portfolio() on that ledger, for every answer of the
\* quote provider; the symbols differ, so ORDER BY symbol gives one listing
AttributionInit ==
    \E provider \in [Range([i \in DOMAIN SixLots |-> SixLots[i].symbol])
                        -> AttributionOutcomes] :
        LET ps == RowsToPositions(SixLots)
            log == QuoteLog(ps, TRUE)
            lim == CHOOSE l \in AcquireRuns([timestamps |-> <<>>, acquired |-> <<>>],
                                            SlotsAcquired(log), NoDelay) : TRUE
        IN /\ positions = Range(SixLots)
           /\ nextId = HeldSymbolCount + 1
           /\ snapshots = {}
           /\ today = 0
           /\ saveCalls = 0
           /\ timestamps = lim.timestamps
           /\ acquired = lim.acquired
           /\ quoteLog = log
           /\ callers = [t \in Callers |-> NotCalling]
           /\ agent = AgentAtStart
           /\ ret = PortfolioResult(ps, TRUE, provider)

AttributionNext == GetPerformance

AttributionSpec == AttributionInit /\ [][AttributionNext]_vars

----------------------------------------------------------------------------
(* DayChangeSpec: valuations with quotes that carry a previous close *)

DayPrices == {None, Some(2), Some(3)}
DayCloses == {None, Some(1), Some(4)}

DayOutcomes ==
    {Failure} \cup {StockAnalysis(cp, pc, None) : cp \in DayPrices, pc \in DayCloses}

GetPortfolioDay == get_portfolio(TRUE, DayOutcomes, NoDelay)

DayChangeNext ==
    \/ AddLot
    \/ GetPortfolioDay

DayChangeSpec == Init /\ [][DayChangeNext]_vars

----------------------------------------------------------------------------
(* SectorSpec: valuation and attribution with quotes of several sectors *)

SectorPrices == {None, Some(1), Some(3)}
SectorNames == {None, Some(""), Some("Tech"), Some("Energy")}

SectorOutcomes ==
    {Failure} \cup {StockAnalysis(cp, None, sec) :
                       cp \in SectorPrices, sec \in SectorNames}

\* one share of "A" or of "B" is bought at 2
AddShare == \E symbol \in LedgerSymbols : add_position(symbol, 1, 2, 0, None)

GetPortfolioSectors == get_portfolio(TRUE, SectorOutcomes, NoDelay)

SectorNext ==
    \/ AddShare
    \/ GetPortfolioSectors
    \/ GetPerformance

SectorSpec == Init /\ [][SectorNext]_vars

----------------------------------------------------------------------------
(* ConstraintSpec: the ledger under calls with shares and prices that the  *)
(* table's CHECK constraints refuse                                        *)

CheckedShares == {-1, 0, 1, 2}
CheckedPrices == {0, 1}

AddChecked ==
    \E shares \in CheckedShares, price \in CheckedPrices :
        add_position(<<65>>, shares, price, 0, None)

UpdateChecked ==
    \E id \in IdInputs, shares \in OptionalOf(CheckedShares) :
        update_position(id, shares, None)

ConstraintNext ==
    \/ AddChecked
    \/ UpdateChecked
    \/ RemovePosition
    \/ GetPortfolioUnpriced

ConstraintSpec == Init /\ [][ConstraintNext]_vars

----------------------------------------------------------------------------
(* ConcurrentSpec: coroutines sharing one limiter through `await acquire()` *)

AsyncAcquire == \E t \in Callers : AcquireBegin(t, "acquire")

AsyncResume == \E t \in Callers : AcquireResume(t, "acquire")

\* what the clock advances by between two steps: a sixth of a window,
\* half a window, a window
ClockSteps == {100, 300, 600}

\* time goes on by one of these, or to the end of a sleep
TimePasses == \E d \in ClockSteps \cup Sleeps : Pass(d)

ConcurrentNext ==
    \/ AsyncAcquire
    \/ AsyncResume
    \/ TimePasses

ConcurrentSpec == Init /\ [][ConcurrentNext]_vars

----------------------------------------------------------------------------
(* SyncLiveSpec: one thread calling acquire_sync, step by step, with a     *)
(* clock that keeps advancing and a time.sleep that returns                 *)

\* the thread that calls acquire_sync
MainThread == CHOOSE t \in Callers : \A u \in Callers : t <= u

SyncAcquire == AcquireBegin(MainThread, "acquire_sync")

SyncResume == AcquireResume(MainThread, "acquire_sync")

SyncNext ==
    \/ SyncAcquire
    \/ SyncResume
    \/ TimePasses

\* fairness: the clock keeps advancing (the time to the end of a sleep
\* passes), and time.sleep returns once its time is over
SyncLiveSpec ==
    /\ Init
    /\ [][SyncNext]_vars
    /\ WF_vars(TimePasses)
    /\ WF_vars(SyncResume)

----------------------------------------------------------------------------
(* AgentSpec: the interactive loop with the help, add, remove and quit      *)
(* commands                                                                *)

AgentCommands == {"help", "add", "remove", "quit"}

ExceptionClasses == {"KeyboardInterrupt", "StockAgentError", "Exception"}

AgentGetCommand == get_command(AgentCommands)

\* _add_position validates the symbol with get_stock_analysis, which
\* starts with acquire_sync
AgentValidateSymbol ==
    /\ Handling("add") /\ ret.op = "get_command"
    /\ acquire_sync(NoDelay)

AgentAddPosition ==
    /\ Handling("add") /\ ret.op = "acquire_sync"
    /\ AddOneShare

\* _remove_position lists the lots with get_portfolio(include_prices=False)
AgentListPositions ==
    /\ Handling("remove") /\ ret.op = "get_command"
    /\ GetPortfolioUnpriced

\* ... and removes the lot whose id the user picked from that list
AgentRemovePosition ==
    /\ Handling("remove") /\ ret.op = "get_portfolio"
    /\ ret.value.num_positions # 0
    /\ \E i \in DOMAIN ret.value.positions :
          remove_position(ret.value.positions[i].id)

AgentHandlerReturns == handler_returns

AgentRaises == \E e \in ExceptionClasses : raises(e)

AgentNext ==
    \/ AgentGetCommand
    \/ AgentValidateSymbol
    \/ AgentAddPosition
    \/ AgentListPositions
    \/ AgentRemovePosition
    \/ AgentHandlerReturns
    \/ AgentRaises

AgentSpec == Init /\ [][AgentNext]_vars

----------------------------------------------------------------------------
(* Claims *)

\* C1: the snapshot store holds at most one snapshot per calendar date, and
\* right after a save the snapshot of the saved date carries exactly the
\* totals of that save (so a second save on a date replaces, never appends).
C1_OneSnapshotPerDate ==
    /\ \A r1, r2 \in snapshots : r1.snapshot_date = r2.snapshot_date => r1 = r2
    /\ Cardinality(snapshots) <= saveCalls
    /\ Cardinality(snapshots) <= today + 1
    /\ ret.op = "save_snapshot" =>
          /\ ret.value \in snapshots
          /\ ret.value = SnapshotOf(ret.args.portfolio, ret.value.snapshot_date)

\* a second save on the date of the first has happened and one row is stored
C1_Witness ==
    /\ ret.op = "save_snapshot"
    /\ saveCalls = 2
    /\ Cardinality(snapshots) = 1
    /\ ret.value.num_positions > 0

SameSign(a, b) == (a > 0 /\ b > 0) \/ (a < 0 /\ b < 0) \/ (a = 0 /\ b = 0)
OppositeSign(a, b) == (a > 0 /\ b < 0) \/ (a < 0 /\ b > 0)

\* C2: in get_performance every holding whose unrealized gain has the sign of
\* the portfolio's total unrealized gain (both negative included) has a
\* contribution_pct >= 0.
C2_SameSignNonNegative ==
    ret.op = "get_performance" =>
        \A i \in DOMAIN ret.value.holdings :
            LET h == ret.value.holdings[i]
            IN SameSign(h.unrealized_gain, ret.value.total_gain)
                  => h.contribution_pct.n >= 0

\* C3: in get_performance, when the total unrealized gain is non-zero and a
\* holding's unrealized gain has the strictly opposite sign, that holding's
\* contribution_pct is strictly negative.
C3_OppositeSignNegative ==
    ret.op = "get_performance" =>
        \A i \in DOMAIN ret.value.holdings :
            LET h == ret.value.holdings[i]
            IN OppositeSign(h.unrealized_gain, ret.value.total_gain)
                  => h.contribution_pct.n < 0

\* a losing portfolio with a winning holding has been attributed
C3_Witness ==
    /\ ret.op = "get_performance"
    /\ ret.value.total_gain < 0
    /\ \E i \in DOMAIN ret.value.holdings : ret.value.holdings[i].unrealized_gain > 0

\* a position as get_all_positions returned it, before the enrichment
Unpriced(p) ==
    [p EXCEPT !.current_price = None, !.current_value = None, !.cost_basis = None,
              !.unrealized_gain = None, !.unrealized_gain_pct = None,
              !.day_change = None, !.day_change_pct = None]

AggregatedOf(portfolio, symbol) ==
    {portfolio.aggregated[i] : i \in {j \in DOMAIN portfolio.aggregated :
                                         portfolio.aggregated[j].symbol = symbol}}

\* C4: a provider failure for a symbol X does not abort get_portfolio: the
\* portfolio is returned, X is unpriced (no current_value, nothing added to
\* total_current_value or to sector_allocation: both are what the ledger
\* without X's lots gives), and every other symbol has the current value and
\* unrealized gain it has when X's quote succeeds, whatever that quote is.
C4_QuoteFailureIsolated ==
    (ret.op = "get_portfolio" /\ ret.args.include_prices) =>
        /\ ret.kind = "ok"
        /\ LET pf == ret.value
               provider == ret.args.provider
               ps == [i \in DOMAIN pf.positions |-> Unpriced(pf.positions[i])]
           IN \A X \in DOMAIN provider :
                provider[X] = Failure =>
                  /\ \A a \in AggregatedOf(pf, X) : a.current_value = None
                  /\ LET rest == SelectSeq(ps, LAMBDA p : p.symbol # X)
                         without == PortfolioResult(rest, TRUE, provider).value
                     IN /\ pf.total_current_value = without.total_current_value
                        /\ pf.sector_allocation = without.sector_allocation
                  /\ \A alt \in Outcomes \ {Failure} :
                       LET other == PortfolioResult(ps, TRUE,
                                        [provider EXCEPT ![X] = alt]).value
                       IN \A Y \in DOMAIN provider \ {X} :
                            \A a \in AggregatedOf(pf, Y) :
                              \E b \in AggregatedOf(other, Y) :
                                /\ a.current_value = b.current_value
                                /\ a.unrealized_gain = b.unrealized_gain

\* the quote of one symbol failed while another symbol was priced, with a sector
C4_Witness ==
    /\ ret.op = "get_portfolio" /\ ret.args.include_prices /\ ret.kind = "ok"
    /\ \E X, Y \in DOMAIN ret.args.provider :
          /\ ret.args.provider[X] = Failure
          /\ \E a \in AggregatedOf(ret.value, Y) :
                a.current_value # None /\ a.sector # None
    /\ DOMAIN ret.value.sector_allocation # {}

\* get_portfolio was asked for prices of a non-empty ledger and every quote failed
AllQuotesFailed ==
    /\ ret.op = "get_portfolio" /\ ret.args.include_prices
    /\ DOMAIN ret.args.provider # {}
    /\ \A X \in DOMAIN ret.args.provider : ret.args.provider[X] = Failure

\* C5 as claimed: with a non-empty ledger and every quote failing, the
\* portfolio is returned with total_current_value, total_unrealized_gain,
\* total_unrealized_gain_pct, total_day_change and total_day_change_pct all 0
\* and an empty sector_allocation.
C5_AllTotalsZero ==
    AllQuotesFailed =>
        /\ ret.kind = "ok"
        /\ ret.value.total_current_value = 0
        /\ ret.value.total_unrealized_gain = 0
        /\ ret.value.total_unrealized_gain_pct = FracZero
        /\ ret.value.total_day_change = 0
        /\ ret.value.total_day_change_pct = FracZero
        /\ DOMAIN ret.value.sector_allocation = {}

\* C5 as amended: the portfolio is returned with total_current_value,
\* total_day_change and total_day_change_pct 0 and an empty sector_allocation,
\* while total_unrealized_gain is minus the (positive) total_cost_basis and
\* total_unrealized_gain_pct is -100.
C5_ValueTotalsZeroGainMinusCost ==
    AllQuotesFailed =>
        /\ ret.kind = "ok"
        /\ ret.value.total_current_value = 0
        /\ ret.value.total_day_change = 0
        /\ ret.value.total_day_change_pct = FracZero
        /\ DOMAIN ret.value.sector_allocation = {}
        /\ ret.value.total_cost_basis > 0
        /\ ret.value.total_unrealized_gain = -ret.value.total_cost_basis
        /\ ret.value.total_unrealized_gain_pct = FracOfInt(-100)

\* every quote of a ledger of two symbols failed
C5_Witness ==
    /\ AllQuotesFailed
    /\ Cardinality(DOMAIN ret.args.provider) = 2
    /\ ret.value.num_positions = 2

\* the error kinds raised for bad lot input: PortfolioError (and its subclass
\* InvalidPositionError), and the store's constraint error
ValidationKinds == {"PortfolioError", "InvalidPositionError", "IntegrityError"}

\* C6: add with shares <= 0, or purchase price <= 0, or a purchase date later
\* than today fails with the validation error kind and leaves the ledger
\* unchanged.
C6_AddRejectsInvalid ==
    [][(ret' # ret /\ ret'.op = "add_position"
          /\ (\/ ret'.args.shares <= 0
              \/ ret'.args.purchase_price <= 0
              \/ ret'.args.purchase_date > today))
        => (ret'.kind \in ValidationKinds /\ positions' = positions)]_vars

\* C7: update fails with the validation error (PortfolioError) when neither
\* shares nor notes is given, and with the not-found error when a field is
\* given and no lot has the id; in both cases the stored lots are unchanged.
C7_UpdateFailures ==
    [][(ret' # ret /\ ret'.op = "update_position") =>
          LET a == ret'.args
              nothing == a.shares = None /\ a.notes = None
              absent == ~\E r \in positions : r.id = a.position_id
          IN /\ nothing => (ret'.kind = "PortfolioError" /\ positions' = positions)
             /\ (~nothing /\ absent) =>
                   (ret'.kind = "PositionNotFoundError" /\ positions' = positions)]_vars

\* an update of an id no lot has, with a field given, on a non-empty ledger
C7_Witness ==
    /\ ret.op = "update_position"
    /\ ret.kind = "PositionNotFoundError"
    /\ ret.args.shares # None
    /\ positions # {}

\* C8: remove(id) returns true exactly when a lot with that id was stored;
\* afterwards that lot is absent and every other lot is unchanged (so a
\* false result leaves the ledger unchanged).
C8_RemoveByIdentity ==
    [][(ret' # ret /\ ret'.op = "remove_position") =>
          LET id == ret'.args.position_id
          IN /\ ret'.value = (\E r \in positions : r.id = id)
             /\ positions' = {r \in positions : r.id # id}]_vars

\* a lot was removed and another lot is still stored
C8_Witness ==
    /\ ret.op = "remove_position"
    /\ ret.value = TRUE
    /\ positions # {}

\* C9: add stores the canonical (uppercase, trimmed) symbol of its input, and
\* read-by-symbol returns exactly the lots whose symbol input has the same
\* canonical form as the symbol asked for.
C9_SymbolCanonical ==
    /\ (ret.op = "add_position" /\ ret.kind = "ok") =>
          \A r \in positions :
              r.id = ret.value.id => r.symbol = Strip(Upper(ret.args.symbol))
    /\ ret.op = "get_positions_by_symbol" =>
          {p.id : p \in Range(ret.value)}
              = {r.id : r \in {x \in positions :
                                  Strip(Upper(x.symbol)) = Strip(Upper(ret.args.symbol))}}

SortedBySymbolDate(ps) ==
    \A i, j \in DOMAIN ps :
        i < j => \/ StrLess(ps[i].symbol, ps[j].symbol)
                 \/ /\ ps[i].symbol = ps[j].symbol
                    /\ ps[i].purchase_date <= ps[j].purchase_date

SortedByDate(ps) ==
    \A i, j \in DOMAIN ps : i < j => ps[i].purchase_date <= ps[j].purchase_date

\* C10: list_all returns every stored lot exactly once, ordered by (symbol,
\* purchase date) ascending, and the member lots of each aggregated position
\* are in purchase-date ascending order.
C10_ListOrder ==
    /\ ret.op = "get_all_positions" =>
          /\ Len(ret.value) = Cardinality(positions)
          /\ {p.id : p \in Range(ret.value)} = {r.id : r \in positions}
          /\ SortedBySymbolDate(ret.value)
    /\ (ret.op = "get_portfolio" /\ ret.kind = "ok") =>
          \A a \in Range(ret.value.aggregated) : SortedByDate(a.lots)

\* the rows of the ledger that read back with the symbol sym
RowsOf(sym) == {r \in positions : uppercase_symbol(r.symbol) = sym}

\* C11: aggregation yields exactly one aggregated position per distinct
\* symbol of the ledger's lots, made of exactly that symbol's lots, whose
\* total_shares is the sum of their shares and whose total_cost_basis is the
\* sum of their shares times purchase price.
C11_OnePerSymbolSums ==
    (ret.op = "get_portfolio" /\ ret.kind = "ok") =>
        LET aggregated == ret.value.aggregated
        IN /\ \A sym \in HeldSymbols :
                 Cardinality({i \in DOMAIN aggregated : aggregated[i].symbol = sym}) = 1
           /\ \A i \in DOMAIN aggregated :
                 LET a == aggregated[i]
                 IN /\ a.symbol \in HeldSymbols
                    /\ Len(a.lots) = Cardinality(RowsOf(a.symbol))
                    /\ {a.lots[j].id : j \in DOMAIN a.lots}
                          = {r.id : r \in RowsOf(a.symbol)}
                    /\ a.total_shares = SumOver([r \in RowsOf(a.symbol) |-> r.shares])
                    /\ a.total_cost_basis =
                          SumOver([r \in RowsOf(a.symbol) |->
                                      r.shares * r.purchase_price])

\* a symbol held in two lots of different sizes has been aggregated
C11_Witness ==
    /\ ret.op = "get_portfolio"
    /\ \E i \in DOMAIN ret.value.aggregated :
          LET a == ret.value.aggregated[i]
          IN Len(a.lots) = 2 /\ a.lots[1].shares # a.lots[2].shares
                             /\ a.total_shares = 3

\* C12: in every portfolio get_portfolio returns, total_current_value is the
\* sum of current_value over the priced aggregated positions (an unpriced
\* one counts 0) and total_cost_basis is the sum of shares times purchase
\* price over all lots of the ledger.
C12_TotalsAreSums ==
    (ret.op = "get_portfolio" /\ ret.kind = "ok") =>
        LET pf == ret.value
            aggregated == pf.aggregated
        IN /\ pf.total_current_value =
                 SumSeq([i \in DOMAIN aggregated |->
                            IF aggregated[i].current_value # None
                            THEN aggregated[i].current_value[1] ELSE 0])
           /\ pf.total_cost_basis =
                 SumOver([r \in positions |-> r.shares * r.purchase_price])

\* a portfolio of a priced symbol held in two shares and an unpriced symbol
\* has been valued
C12_Witness ==
    /\ ret.op = "get_portfolio"
    /\ ret.kind = "ok"
    /\ \E i, j \in DOMAIN ret.value.aggregated :
          /\ ret.value.aggregated[i].current_value # None
          /\ ret.value.aggregated[i].total_shares = 2
          /\ ret.value.aggregated[j].current_value = None

\* the cost side of an aggregated position
CostSide(a) ==
    [symbol |-> a.symbol, total_shares |-> a.total_shares,
     total_cost_basis |-> a.total_cost_basis, average_cost |-> a.average_cost]

\* C13: for a fixed ledger, the get_portfolio run taken and every run that
\* differs from it only in what the provider answers (any mix of prices,
\* failures and missing fields, or prices not asked for) give the same
\* total_cost_basis and, per symbol, the same total_shares, total_cost_basis
\* and average_cost.
C13_CostIndependentOfQuotes ==
    (ret.op = "get_portfolio" /\ ret.kind = "ok") =>
        LET pf == ret.value
            ps == [i \in DOMAIN pf.positions |-> Unpriced(pf.positions[i])]
        IN \A include_prices \in BOOLEAN :
             \A provider \in [DOMAIN ret.args.provider -> Outcomes] :
               LET other == PortfolioResult(ps, include_prices, provider)
               IN /\ other.kind = "ok"
                  /\ other.value.total_cost_basis = pf.total_cost_basis
                  /\ {CostSide(a) : a \in Range(other.value.aggregated)}
                        = {CostSide(a) : a \in Range(pf.aggregated)}

\* a ledger of two symbols has been valued with one quote failing and the
\* other priced above its cost
C13_Witness ==
    /\ ret.op = "get_portfolio" /\ ret.args.include_prices /\ ret.kind = "ok"
    /\ \E X, Y \in DOMAIN ret.args.provider :
          /\ ret.args.provider[X] = Failure
          /\ ret.args.provider[Y] # Failure
          /\ \E a \in AggregatedOf(ret.value, Y) :
                a.current_value # None /\ a.current_value[1] > a.total_cost_basis

\* the sum of the fractions of a sequence
RECURSIVE FracSum(_)
FracSum(s) == IF s = <<>> THEN FracZero ELSE FracAdd(Head(s), FracSum(Tail(s)))

\* C14: whenever at least one position is priced and total_current_value > 0,
\* the weight_pct of the priced aggregated positions sum to 100, and an
\* unpriced aggregated position never has a weight_pct.
C14_WeightsSumTo100 ==
    (ret.op = "get_portfolio" /\ ret.kind = "ok") =>
        LET pf == ret.value
            priced == SelectSeq(pf.aggregated, LAMBDA a : a.current_value # None)
        IN /\ \A a \in Range(pf.aggregated) :
                 a.current_value = None => a.weight_pct = None
           /\ (priced # <<>> /\ pf.total_current_value > 0) =>
                 /\ \A a \in Range(priced) : a.weight_pct # None
                 /\ FracSum([i \in DOMAIN priced |-> priced[i].weight_pct[1]])
                       = FracOfInt(100)

\* two priced symbols of different values have been weighted
C14_Witness ==
    /\ ret.op = "get_portfolio" /\ ret.kind = "ok"
    /\ Len(ret.value.aggregated) = 2
    /\ ret.value.aggregated[1].weight_pct # None
    /\ ret.value.aggregated[2].weight_pct # None
    /\ ret.value.aggregated[1].weight_pct # ret.value.aggregated[2].weight_pct

\* C15: get_portfolio never fails with a division error: when
\* total_cost_basis is 0 (as for an empty ledger) total_unrealized_gain_pct
\* is 0, and otherwise it is
\* (total_current_value - total_cost_basis) / total_cost_basis * 100.
C15_GainPctDefined ==
    ret.op = "get_portfolio" =>
        /\ ret.kind = "ok"
        /\ LET pf == ret.value
           IN IF pf.total_cost_basis = 0
              THEN pf.total_unrealized_gain_pct = FracZero
              ELSE pf.total_unrealized_gain_pct =
                     Frac(100 * (pf.total_current_value - pf.total_cost_basis),
                          pf.total_cost_basis)

\* the ledger was emptied again and then valued with prices asked for
C15_Witness ==
    /\ ret.op = "get_portfolio" /\ ret.args.include_prices
    /\ positions = {} /\ nextId > 1
    /\ ret.value.total_cost_basis = 0

\* C16: with sequential callers of acquire_sync no 60-second window holds
\* more than N recorded acquisitions: when an acquisition is recorded, the
\* one recorded N acquisitions before it has left the window (it is more
\* than window_size old), and the limiter never holds more than N timestamps.
C16_AtMostNPerWindow ==
    /\ Len(timestamps) <= requests_per_minute
    /\ (Len(acquired) = requests_per_minute + 1 /\ acquired[Len(acquired)] = 0) =>
          acquired[1] > window_size

\* an acquisition has just been recorded while the N - 1 before it are still
\* inside the window and the one before those has left it
C16_Witness ==
    /\ ret.op = "acquire_sync"
    /\ Len(acquired) = requests_per_minute + 1
    /\ acquired[Len(acquired)] = 0
    /\ acquired[1] > window_size
    /\ acquired[2] <= window_size
    /\ Len(timestamps) = requests_per_minute

\* C17: get_portfolio with prices enabled on a non-empty ledger makes, for
\* each distinct symbol of the ledger, exactly one quote request preceded by
\* exactly one acquire_sync, whether the request then fails or not, and the
\* limiter has taken exactly that many acquisitions; with prices disabled or
\* an empty ledger it makes no request and leaves the limiter alone.
C17_OneRequestPerSymbol ==
    [][ret'.op = "get_portfolio" =>
          IF ret'.args.include_prices /\ positions # {}
          THEN /\ DOMAIN quoteLog' = HeldSymbols
               /\ \A sym \in HeldSymbols :
                     quoteLog'[sym] = <<"acquire_sync", "Ticker.info">>
               /\ [timestamps |-> timestamps', acquired |-> acquired']
                     \in AcquireRuns(Limiter, Cardinality(HeldSymbols), NoDelay)
          ELSE /\ DOMAIN quoteLog' = {}
               /\ timestamps' = timestamps
               /\ acquired' = acquired]_vars

\* prices were asked for a symbol held in two lots, and its request failed
C17_Witness ==
    /\ ret.op = "get_portfolio" /\ ret.args.include_prices
    /\ Cardinality(positions) = 2
    /\ Cardinality(DOMAIN quoteLog) = 1
    /\ \A sym \in DOMAIN quoteLog : ret.args.provider[sym] = Failure

\* C18: get_history(window_days) returns exactly the stored snapshots dated
\* today - window_days or later, today being the date save_snapshot uses as
\* the key, in ascending date order; when there are none it returns a
\* history with no snapshots and every derived field absent.
C18_HistoryWindow ==
    [][(ret' # ret /\ ret'.op = "get_history") =>
          LET got == ret'.value.snapshots
              window == {r \in snapshots : r.snapshot_date >= today - ret'.args.days}
          IN /\ Range(got) = window
             /\ Len(got) = Cardinality(window)
             /\ \A i, j \in DOMAIN got :
                   i < j => got[i].snapshot_date < got[j].snapshot_date
             /\ window = {} => ret'.value = EmptyHistory]_vars

\* C19: for every non-empty history window, starting_value is the total
\* value of the earliest snapshot of the window and current_value that of the
\* latest, total_change is current_value - starting_value, and high_value /
\* low_value are the greatest / least total value of the window, dated at the
\* earliest snapshot that has it.
C19_HistorySummary ==
    (ret.op = "get_history" /\ ret.value.snapshots # <<>>) =>
        LET h == ret.value
            got == Range(h.snapshots)
            earliest == CHOOSE r \in got : \A x \in got : r.snapshot_date <= x.snapshot_date
            latest == CHOOSE r \in got : \A x \in got : r.snapshot_date >= x.snapshot_date
        IN /\ h.starting_value = Some(earliest.total_value)
           /\ h.current_value = Some(latest.total_value)
           /\ h.total_change = Some(h.current_value[1] - h.starting_value[1])
           /\ \A x \in got : x.total_value <= h.high_value[1]
           /\ \A x \in got : x.total_value >= h.low_value[1]
           /\ \E x \in got : /\ x.total_value = h.high_value[1]
                              /\ x.snapshot_date = h.high_date[1]
           /\ \E x \in got : /\ x.total_value = h.low_value[1]
                              /\ x.snapshot_date = h.low_date[1]
           /\ \A x \in got : x.total_value = h.high_value[1]
                                => h.high_date[1] <= x.snapshot_date
           /\ \A x \in got : x.total_value = h.low_value[1]
                                => h.low_date[1] <= x.snapshot_date

\* a window of two snapshots of the same, positive total value
C19_Witness ==
    /\ ret.op = "get_history"
    /\ Len(ret.value.snapshots) = 2
    /\ ret.value.snapshots[1].total_value = ret.value.snapshots[2].total_value
    /\ ret.value.snapshots[1].total_value > 0

\* C20: the snapshots change only in a save_snapshot step (no add, remove,
\* update, get_portfolio, get_history or get_performance step creates,
\* modifies or deletes one), and a save_snapshot step leaves the lots and the
\* id counter of the ledger unchanged.
C20_SnapshotsChangeOnlyBySave ==
    [][/\ snapshots' # snapshots => ret'.op = "save_snapshot"
       /\ ret'.op = "save_snapshot" => (positions' = positions /\ nextId' = nextId)]_vars

\* the snapshot of a one-lot portfolio is still stored after the lot was
\* removed
C20_Witness ==
    /\ ret.op = "remove_position" /\ ret.value = TRUE
    /\ positions = {}
    /\ \E r \in snapshots : r.num_positions > 0

\* the smaller of two numbers
Min(a, b) == IF a < b THEN a ELSE b

\* s lists distinct elements of the sequence all
DistinctFrom(s, all) ==
    /\ Range(s) \subseteq Range(all)
    /\ Cardinality(Range(s)) = Len(s)

\* C21: get_performance returns as holdings exactly the priced positions,
\* one holding each, in descending order of gain; top_gainers is the (at
\* most TopN) holdings of largest strictly positive gain, largest first;
\* top_losers is the (at most TopN) holdings of most negative gain, most
\* negative first; no holding is in both and one of gain 0 is in neither.
C21_GainersAndLosers ==
    (ret.op = "get_performance" /\ ret.kind = "ok") =>
        LET perf == ret.value
            aggregated == ret.args.portfolio.aggregated
            priced == {aggregated[i] : i \in {k \in DOMAIN aggregated :
                                                 aggregated[k].current_value # None}}
            holdings == perf.holdings
            gainers == perf.top_gainers
            losers == perf.top_losers
            winning == {h \in Range(holdings) : h.unrealized_gain > 0}
            losing == {h \in Range(holdings) : h.unrealized_gain < 0}
        IN /\ Len(holdings) = Cardinality(priced)
           /\ \A a \in priced : \E i \in DOMAIN holdings :
                 /\ holdings[i].symbol = a.symbol
                 /\ holdings[i].unrealized_gain = a.current_value[1] - a.total_cost_basis
           /\ \A i, j \in DOMAIN holdings :
                 i < j => holdings[i].unrealized_gain >= holdings[j].unrealized_gain
           /\ DistinctFrom(gainers, holdings)
           /\ Range(gainers) \subseteq winning
           /\ Len(gainers) = Min(TopN, Cardinality(winning))
           /\ \A i, j \in DOMAIN gainers :
                 i < j => gainers[i].unrealized_gain >= gainers[j].unrealized_gain
           /\ \A h \in winning \ Range(gainers) : \A g \in Range(gainers) :
                 h.unrealized_gain <= g.unrealized_gain
           /\ DistinctFrom(losers, holdings)
           /\ Range(losers) \subseteq losing
           /\ Len(losers) = Min(TopN, Cardinality(losing))
           /\ \A i, j \in DOMAIN losers :
                 i < j => losers[i].unrealized_gain <= losers[j].unrealized_gain
           /\ \A h \in losing \ Range(losers) : \A l \in Range(losers) :
                 h.unrealized_gain >= l.unrealized_gain
           /\ Range(gainers) \cap Range(losers) = {}
           /\ \A h \in Range(holdings) :
                 h.unrealized_gain = 0 => h \notin Range(gainers) \cup Range(losers)

\* six holdings lose, of two different sizes of loss: top_losers keeps five
C21_Witness ==
    /\ ret.op = "get_performance" /\ ret.kind = "ok"
    /\ Len(ret.value.holdings) = HeldSymbolCount
    /\ Len(ret.value.top_losers) = TopN
    /\ ret.value.top_losers[1].unrealized_gain < ret.value.top_losers[TopN].unrealized_gain

\* C22: the aggregated positions get_portfolio returns are in descending
\* order of current value, and every position without a current value
\* comes after every position with one.
C22_AggregatedByValue ==
    (ret.op = "get_portfolio" /\ ret.kind = "ok") =>
        LET aggregated == ret.value.aggregated
        IN \A i, j \in DOMAIN aggregated :
              i < j =>
                 /\ (aggregated[i].current_value # None
                       /\ aggregated[j].current_value # None)
                    => aggregated[i].current_value[1] >= aggregated[j].current_value[1]
                 /\ ~(aggregated[i].current_value = None
                        /\ aggregated[j].current_value # None)

\* "A" is listed first and has no quote, "B" has one: "B" comes first
C22_Witness ==
    /\ ret.op = "get_portfolio" /\ ret.kind = "ok"
    /\ Len(ret.value.aggregated) = 2
    /\ ret.value.positions[1].symbol = <<65>>
    /\ ret.value.aggregated[1].symbol = <<66>>
    /\ ret.value.aggregated[1].current_value # None
    /\ ret.value.aggregated[2].current_value = None

\* what the lot p adds to the day's change when its symbol's lookup gave
\* `answer`: (current price - previous close) * shares, or 0 when the
\* lookup failed or either price is missing
DayChangeOfLot(p, answer) ==
    IF answer # Failure /\ answer.current_price # None /\ answer.previous_close # None
    THEN (answer.current_price[1] - answer.previous_close[1]) * p.shares
    ELSE 0

\* C23: total_day_change is the sum over the lots of (current price -
\* previous close) * shares, a lot without either price adding 0;
\* total_day_change_pct is total_day_change / (total_current_value -
\* total_day_change) * 100, and 0 when that denominator is <= 0.
C23_DayChangeTotals ==
    (ret.op = "get_portfolio" /\ ret.kind = "ok") =>
        LET portfolio == ret.value
            lots == portfolio.positions
            total == SumSeq([i \in DOMAIN lots |->
                                DayChangeOfLot(lots[i], ret.args.provider[lots[i].symbol])])
            denominator == portfolio.total_current_value - portfolio.total_day_change
            pct == portfolio.total_day_change_pct
        IN /\ portfolio.total_day_change = total
           /\ pct.d > 0
           /\ IF denominator > 0
              THEN pct.n * denominator = 100 * total * pct.d
              ELSE pct.n = 0

\* two lots, one whose quote has no previous close, and a day's loss
C23_Witness ==
    /\ ret.op = "get_portfolio" /\ ret.kind = "ok"
    /\ Len(ret.value.positions) = 2
    /\ \E i \in DOMAIN ret.value.positions :
          /\ ret.value.positions[i].current_value # None
          /\ ret.value.positions[i].day_change = None
    /\ ret.value.total_day_change < 0
    /\ ret.value.total_day_change_pct.n < 0

\* the sum of the fractions f[x] over the domain of the function f
RECURSIVE FracSumOver(_)
FracSumOver(f) ==
    IF DOMAIN f = {} THEN FracZero
    ELSE LET x == CHOOSE x \in DOMAIN f : TRUE
         IN FracAdd(f[x], FracSumOver([y \in DOMAIN f \ {x} |-> f[y]]))

\* C24: sector_allocation has an entry for a sector exactly when some
\* aggregated position has that sector and a current value; the entry is
\* the sum over those positions of current value / total_current_value *
\* 100; so the entries sum to at most 100, and to less when a priced
\* position has no sector.
C24_SectorAllocation ==
    (ret.op = "get_portfolio" /\ ret.kind = "ok") =>
        LET aggregated == ret.value.aggregated
            total == ret.value.total_current_value
            allocation == ret.value.sector_allocation
            counted == {i \in DOMAIN aggregated :
                           /\ TruthyStr(aggregated[i].sector)
                           /\ aggregated[i].current_value # None}
            valueOf(sec) ==
                SumOver([i \in {k \in counted : aggregated[k].sector[1] = sec} |->
                            aggregated[i].current_value[1]])
            sum == FracSumOver(allocation)
        IN /\ DOMAIN allocation = {aggregated[i].sector[1] : i \in counted}
           /\ \A sec \in DOMAIN allocation :
                 /\ allocation[sec].d > 0
                 /\ allocation[sec].n * total = 100 * valueOf(sec) * allocation[sec].d
           /\ sum.d > 0 /\ sum.n <= 100 * sum.d

\* two priced positions of one sector: their shares are added up
C24_Witness ==
    /\ ret.op = "get_portfolio" /\ ret.kind = "ok"
    /\ Len(ret.value.aggregated) = 2
    /\ DOMAIN ret.value.sector_allocation = {"Tech"}
    /\ ret.value.sector_allocation["Tech"] = FracOfInt(100)
    /\ ret.value.aggregated[1].weight_pct # Some(FracOfInt(100))
    /\ ret.value.aggregated[2].sector = Some("Tech")

\* C25: every holding of get_performance is counted in exactly one sector
\* of sector_performance, a holding without a sector under "Unknown"; a
\* sector's value is the sum of its holdings' gains / the sum of their
\* cost bases * 100, or 0 when that sum of cost bases is 0.
C25_SectorPerformance ==
    (ret.op = "get_performance" /\ ret.kind = "ok") =>
        LET holdings == ret.value.holdings
            performance == ret.value.sector_performance
            sectorOf(i) == IF TruthyStr(holdings[i].sector)
                           THEN holdings[i].sector[1] ELSE "Unknown"
            members(sec) == {i \in DOMAIN holdings : sectorOf(i) = sec}
            gain(sec) == SumOver([i \in members(sec) |-> holdings[i].unrealized_gain])
            cost(sec) == SumOver([i \in members(sec) |-> holdings[i].cost_basis])
        IN /\ DOMAIN performance = {sectorOf(i) : i \in DOMAIN holdings}
           /\ \A i \in DOMAIN holdings :
                 Cardinality({sec \in DOMAIN performance : i \in members(sec)}) = 1
           /\ \A sec \in DOMAIN performance :
                 /\ performance[sec].d > 0
                 /\ IF cost(sec) = 0 THEN performance[sec].n = 0
                    ELSE performance[sec].n * cost(sec)
                            = 100 * gain(sec) * performance[sec].d

\* two holdings without a sector name, grouped under "Unknown" at a loss
C25_Witness ==
    /\ ret.op = "get_performance" /\ ret.kind = "ok"
    /\ Len(ret.value.holdings) = 2
    /\ ret.value.holdings[1].sector = None
    /\ ret.value.holdings[2].sector = Some("")
    /\ DOMAIN ret.value.sector_performance = {"Unknown"}
    /\ ret.value.sector_performance["Unknown"].n < 0

\* C27: after every add, update or remove, failed ones included, each
\* stored lot has shares > 0 and purchase price > 0; an update that sets
\* shares to a value <= 0 fails and leaves the ledger as it was; and every
\* aggregated position of get_portfolio has total_shares > 0.
C27_LotsStayPositive ==
    [][/\ \A r \in positions' : r.shares > 0 /\ r.purchase_price > 0
       /\ (/\ ret'.op = "update_position"
           /\ ret'.args.shares # None
           /\ ret'.args.shares[1] <= 0)
          => (ret'.kind # "ok" /\ positions' = positions)
       /\ (ret'.op = "get_portfolio" /\ ret'.kind = "ok")
          => \A i \in DOMAIN ret'.value.aggregated :
                ret'.value.aggregated[i].total_shares > 0]_vars

\* an update of a stored lot to 0 shares was refused by the CHECK constraint
C27_Witness ==
    /\ ret.op = "update_position"
    /\ ret.args.shares = Some(0)
    /\ ret.kind = "IntegrityError"
    /\ \E r \in positions : r.id = ret.args.position_id /\ r.shares = 2

\* C28: the stored lots have pairwise distinct ids, and the id add assigns
\* is larger than every id assigned before it (ids are handed out in
\* increasing order and the counter never goes back), so it is never the
\* id of an earlier lot, removed or not.
C28_IdsNeverReused ==
    [][/\ \A r1, r2 \in positions' : r1.id = r2.id => r1 = r2
       /\ \A r \in positions' : r.id < nextId'
       /\ nextId' >= nextId
       /\ (ret' # ret /\ ret'.op = "add_position" /\ ret'.kind = "ok")
          => /\ ret'.value.id = nextId
             /\ nextId' > ret'.value.id
             /\ \A r \in positions : r.id < ret'.value.id
             /\ \E r \in positions' \ positions : r.id = ret'.value.id]_vars

\* lot 1 was removed and the next add got id 2
C28_Witness ==
    /\ ret.op = "add_position" /\ ret.kind = "ok"
    /\ ret.value.id = 2
    /\ {r.id : r \in positions} = {2}

\* C26: with several callers of the asynchronous acquire of one limiter,
\* whose executions interleave at the sleep, no trailing 60-second window
\* holds more than N recorded acquisitions: of the last N + 1 acquisitions
\* at most N are inside the window, and the deque holds at most N
\* timestamps.
C26_AtMostNConcurrent ==
    /\ Cardinality({i \in DOMAIN acquired : acquired[i] <= window_size})
          <= requests_per_minute
    /\ Len(timestamps) <= requests_per_minute

\* C29: with a clock that keeps advancing, every acquire_sync call returns:
\* a call that has gone to sleep is followed by its return, and a call that
\* has returned has slept at most once and has appended exactly one
\* timestamp to the deque.
C29_AcquireSyncReturns ==
    /\ [](callers[MainThread].pc = "idle" =>
             /\ callers[MainThread].slept <= 1
             /\ (ret.op = "acquire_sync" => callers[MainThread].appended = 1))
    /\ (callers[MainThread].pc = "sleeping")
          ~> (callers[MainThread].pc = "idle" /\ ret.kind = "ok")

\* a call found the limiter at capacity, slept once and has returned
C29_Witness ==
    /\ ret.op = "acquire_sync" /\ ret.kind = "ok"
    /\ callers[MainThread].pc = "idle"
    /\ callers[MainThread].slept = 1
    /\ callers[MainThread].appended = 1
    /\ Len(timestamps) = requests_per_minute

\* C30: an error raised while a command runs, a StockAgentError or any
\* other exception, is reported and the loop is back at its prompt; the
\* loop ends only on the quit command or on a KeyboardInterrupt, and once
\* ended it does nothing more.
C30_LoopSurvivesErrors ==
    [][/\ (agent' # agent /\ agent'.raised = Some("StockAgentError"))
          => (agent'.pc = "prompt" /\ agent'.said = "error")
       /\ (agent' # agent /\ agent'.raised = Some("Exception"))
          => (agent'.pc = "prompt" /\ agent'.said = "unexpected error")
       /\ (agent.pc # "ended" /\ agent'.pc = "ended")
          => \/ agent.pc = "prompt" /\ agent'.command = Some("quit")
                   /\ agent'.raised = None
             \/ agent'.raised = Some("KeyboardInterrupt")
       /\ agent.pc = "ended" => UNCHANGED vars]_vars

\* an exception that is not a StockAgentError left the add handler after
\* the lot was stored, was reported, and the loop prompts again
C30_Witness ==
    /\ agent.pc = "prompt"
    /\ agent.command = Some("add")
    /\ agent.raised = Some("Exception")
    /\ agent.said = "unexpected error"
    /\ ret.op = "add_position"

============================================================================
